---- MODULE Spec2Model ----
(***************************************************************************)
(* The task store of src/Todo_list.Gui/todo_app.py: Task, TodoList and the *)
(* JSON file it persists to.                                               *)
(*                                                                         *)
(* Time is a clock of integer ticks (datetime.now()).  A datetime.datetime *)
(* is [kind |-> "datetime", t |-> tick], a datetime.date (a day without a  *)
(* time of day) is [kind |-> "date", t |-> tick of its midnight], and None *)
(* is [kind |-> "none", t |-> 0].  ISO-8601 text in the file is            *)
(* [text |-> "date" | "datetime" | "bad", t |-> tick]; JSON null is        *)
(* [text |-> "null", t |-> 0].                                             *)
(*                                                                         *)
(* Values given to add_task and update_task are of the type the attribute  *)
(* is constructed with (an enum member, a str, a date/datetime or None, an *)
(* int), so Task.to_dict never raises in a reachable state.                *)
(***************************************************************************)
EXTENDS Integers, Sequences, FiniteSets, TLC

VARIABLES
    tasks,      \* TodoList.tasks: the sequence of Task objects, insertion order
    next_id,    \* TodoList.next_id
    file,       \* the content of TodoList.filename on disk
    now,        \* the clock datetime.now() reads
    last,       \* the last call: [op, ok, id], and for update_status its argument
                \* (status) and its widget (k > 0: the widget of tasks[k]; k < 0:
                \* the widget of orphans[-k])
    shown,      \* shown[k]: a TaskWidget of the window holds tasks[k]
    orphans,    \* the tasks a TaskWidget of the window holds that left tasks
    issued,     \* history: the ids add_task has given out in this TodoList instance
    assigned,   \* history: the ids add_task has given out in all instances so far
    lost,       \* history: a TodoList was constructed from a file that did not hold
                \* the state of the TodoList before it
    steps       \* number of steps taken (bounds the run)

vars == <<tasks, next_id, file, now, last, shown, orphans, issued, assigned, lost,
          steps>>

\* Bound of the model: the length of a run.
MaxSteps == 3

-----------------------------------------------------------------------------
\* Priority(Enum), Status(Enum)

Priority == {"LOW", "MEDIUM", "HIGH", "URGENT"}

PriorityValue(p) ==
    CASE p = "LOW" -> 1 [] p = "MEDIUM" -> 2 [] p = "HIGH" -> 3 [] p = "URGENT" -> 4

Status == {"PENDING", "IN_PROGRESS", "COMPLETED", "CANCELLED"}

StatusValue(s) ==
    CASE s = "PENDING" -> "Pending"
      [] s = "IN_PROGRESS" -> "In Progress"
      [] s = "COMPLETED" -> "Completed"
      [] s = "CANCELLED" -> "Cancelled"

\* Priority(v): the member with value v.  ValueError when there is none.
PriorityOfValue(v) == CHOOSE p \in Priority : PriorityValue(p) = v

\* Status(v): the member with value v.  ValueError when there is none.
StatusOfValue(v) == CHOOSE s \in Status : StatusValue(s) = v

-----------------------------------------------------------------------------
\* datetime values and their ISO text

None == [kind |-> "none", t |-> 0]

Date(d) == [kind |-> "date", t |-> d]

DateTime(d) == [kind |-> "datetime", t |-> d]

JsonNull == [text |-> "null", t |-> 0]

\* date.isoformat() gives "YYYY-MM-DD", datetime.isoformat() "YYYY-MM-DDTHH:MM:SS".
IsoFormat(d) == [text |-> d.kind, t |-> d.t]

\* `x.isoformat() if x else None`: None is falsy, a date or datetime is truthy.
IsoOrNull(d) == IF d.kind = "none" THEN JsonNull ELSE IsoFormat(d)

\* datetime.fromisoformat accepts both forms of text and always gives a datetime
\* (midnight for a date-only text).
IsoParses(s) == s.text \in {"date", "datetime"}

FromIsoFormat(s) == DateTime(s.t)

\* `datetime.fromisoformat(x) if x else None`: null is falsy.
FromIsoOrNull(s) == IF s.text = "null" THEN None ELSE FromIsoFormat(s)

-----------------------------------------------------------------------------
\* Task

\* Task.__init__: status PENDING, completed_at None, created_at the given one.
NewTask(id, title, description, priority, due_date, category, created_at) ==
    [ id |-> id, title |-> title, description |-> description,
      priority |-> priority, status |-> "PENDING", due_date |-> due_date,
      category |-> category, created_at |-> created_at, completed_at |-> None ]

ToDict(task) ==
    [ id |-> task.id, title |-> task.title, description |-> task.description,
      priority |-> PriorityValue(task.priority),
      status |-> StatusValue(task.status),
      due_date |-> IsoOrNull(task.due_date),
      category |-> task.category,
      created_at |-> IsoFormat(task.created_at),
      completed_at |-> IsoOrNull(task.completed_at) ]

\* Whether Task.from_dict(data) returns (TRUE) or raises (FALSE).  id, title,
\* description and category are passed on as they are read.
FromDictOk(data) ==
    /\ \E p \in Priority : PriorityValue(p) = data.priority
    /\ data.due_date.text = "null" \/ IsoParses(data.due_date)
    /\ IsoParses(data.created_at)
    /\ \E s \in Status : StatusValue(s) = data.status
    /\ data.completed_at.text = "null" \/ IsoParses(data.completed_at)

FromDict(data) ==
    [ NewTask(data.id, data.title, data.description,
              PriorityOfValue(data.priority), FromIsoOrNull(data.due_date),
              data.category, FromIsoFormat(data.created_at))
      EXCEPT !.status = StatusOfValue(data.status),
             !.completed_at = FromIsoOrNull(data.completed_at) ]

-----------------------------------------------------------------------------
\* The file.  state: "missing" (no file), "json" (a JSON object with the keys
\* has_tasks / has_next_id say it has), "partial" (truncated by open(.., 'w') and
\* written in part), "garbage" (text that is not JSON).

NoFile ==
    [ state |-> "missing", has_tasks |-> FALSE, tasks |-> <<>>,
      has_next_id |-> FALSE, next_id |-> 0 ]

PartialFile == [NoFile EXCEPT !.state = "partial"]

GarbageFile == [NoFile EXCEPT !.state = "garbage"]

\* The `data` of save_tasks, as json.dump writes it.
JsonFile(ts, nid) ==
    [ state |-> "json", has_tasks |-> TRUE,
      tasks |-> [i \in 1..Len(ts) |-> ToDict(ts[i])],
      has_next_id |-> TRUE, next_id |-> nid ]

\* load_tasks: whether the try block runs to its end.
LoadOk(f) ==
    /\ f.state = "json"
    /\ f.has_tasks
    /\ \A i \in 1..Len(f.tasks) : FromDictOk(f.tasks[i])
    /\ f.has_next_id

\* A load_tasks whose except block resets next_id only: the tasks assigned before
\* the KeyError of data['next_id'] stay.
LoadTasksNoReset(ts, nid, f) ==
    IF f.state = "missing" THEN <<ts, nid>>
    ELSE IF LoadOk(f)
         THEN <<[i \in 1..Len(f.tasks) |-> FromDict(f.tasks[i])], f.next_id>>
         ELSE IF /\ f.state = "json"
                 /\ f.has_tasks
                 /\ \A i \in 1..Len(f.tasks) : FromDictOk(f.tasks[i])
              THEN <<[i \in 1..Len(f.tasks) |-> FromDict(f.tasks[i])], 1>>
              ELSE <<<<>>, 1>>

\* A load_tasks without `self.next_id = data['next_id']`: the counter stays.
LoadTasksKeepsCounter(ts, nid, f) ==
    IF f.state = "missing" THEN <<ts, nid>>
    ELSE IF LoadOk(f)
         THEN <<[i \in 1..Len(f.tasks) |-> FromDict(f.tasks[i])], nid>>
         ELSE <<<<>>, 1>>

\* load_tasks on a store holding <<ts, nid>>: the <<tasks, next_id>> after it.
LoadTasks(ts, nid, f) ==
    IF f.state = "missing" THEN <<ts, nid>>
    ELSE IF LoadOk(f)
         THEN <<[i \in 1..Len(f.tasks) |-> FromDict(f.tasks[i])], f.next_id>>
         ELSE <<<<>>, 1>>

\* save_tasks: the file after it.  "ok": written in full.  "open_fail": open()
\* raises and the file is as before.  "write_fail": the file was truncated and
\* json.dump or the closing flush raises.
SaveOutcome == {"ok", "open_fail", "write_fail"}

SaveTasks(ts, nid, f, outcome) ==
    CASE outcome = "ok" -> JsonFile(ts, nid)
      [] outcome = "open_fail" -> f
      [] outcome = "write_fail" -> PartialFile

\* A save_tasks that reports success whatever happened.
SaveReturnsTrue(outcome) == TRUE

\* What save_tasks returns.
SaveReturns(outcome) == outcome = "ok"

-----------------------------------------------------------------------------
\* Inputs

Titles == {"a", "b"}

\* (title, description, priority, due_date, category) of an add_task call.
AddArgs ==
    { [title |-> "a", description |-> "", priority |-> "MEDIUM",
       due_date |-> None, category |-> "General"],
      [title |-> "a", description |-> "", priority |-> "LOW",
       due_date |-> Date(0), category |-> "Shopping"],
      [title |-> "b", description |-> "d", priority |-> "URGENT",
       due_date |-> DateTime(0), category |-> "General"] }

\* The keyword of an update_task call and the values it may carry.
UpdateKeys ==
    { "title", "description", "priority", "status", "due_date", "category",
      "id", "created_at", "completed_at", "notes" }

UpdateValues(key) ==
    CASE key = "title" -> Titles
      [] key = "description" -> {"d"}
      [] key = "priority" -> Priority
      [] key = "status" -> Status
      [] key = "due_date" -> {None, Date(0), DateTime(0)}
      [] key = "category" -> {"Work"}
      [] key = "id" -> 1..MaxSteps
      [] key = "created_at" -> {DateTime(now)}
      [] key = "completed_at" -> {None, DateTime(now)}
      [] key = "notes" -> {"n"}

TaskIds == 1..MaxSteps

-----------------------------------------------------------------------------
\* TodoList

\* A get_task written as a loop that returns its loop variable: the last task
\* when no task has the id.
GetTaskLoopVariable(ts, task_id) ==
    IF \E i \in 1..Len(ts) : ts[i].id = task_id
    THEN CHOOSE i \in 1..Len(ts) :
            /\ ts[i].id = task_id
            /\ \A j \in 1..(i - 1) : ts[j].id # task_id
    ELSE Len(ts)

\* get_task: the index of the first task with this id, 0 for None.
GetTask(ts, task_id) ==
    IF \E i \in 1..Len(ts) : ts[i].id = task_id
    THEN CHOOSE i \in 1..Len(ts) :
            /\ ts[i].id = task_id
            /\ \A j \in 1..(i - 1) : ts[j].id # task_id
    ELSE 0

\* `if hasattr(task, key): setattr(task, key, value)`
SetAttr(task, key, value) ==
    IF key \in DOMAIN task THEN [task EXCEPT ![key] = value] ELSE task

\* tasks.remove(task): the sequence without its element i.
Remove(ts, i) ==
    [j \in 1..(Len(ts) - 1) |-> IF j < i THEN ts[j] ELSE ts[j + 1]]

\* Task.is_overdue at clock t: "True", "False", or "TypeError" when it raises.
\* `self.due_date < datetime.now()` compares a datetime.date with a datetime,
\* which Python refuses; two datetimes compare by time.
IsOverdue(task, t) ==
    IF task.due_date.kind # "none" /\ task.status # "COMPLETED"
    THEN IF task.due_date.kind = "date" THEN "TypeError"
         ELSE IF task.due_date.t < t THEN "True" ELSE "False"
    ELSE "False"

\* get_tasks_by_status, get_tasks_by_priority, get_tasks_by_category
GetTasksByStatus(ts, status) == SelectSeq(ts, LAMBDA task : task.status = status)

GetTasksByPriority(ts, priority) ==
    SelectSeq(ts, LAMBDA task : task.priority = priority)

GetTasksByCategory(ts, category) ==
    SelectSeq(ts, LAMBDA task : task.category = category)

\* get_overdue_tasks at clock t: raised when is_overdue raises for some task,
\* else the value returned.
GetOverdueTasks(ts, t) ==
    IF \E i \in 1..Len(ts) : IsOverdue(ts[i], t) = "TypeError"
    THEN [raised |-> TRUE, value |-> <<>>]
    ELSE [raised |-> FALSE,
          value |-> SelectSeq(ts, LAMBDA task : IsOverdue(task, t) = "True")]

\* completed / total * 100 if total > 0 else 0, as the fraction num / den; the
\* rounding of the float division is not modelled.
CompletionRate(completed, total) ==
    IF total > 0 THEN [num |-> completed * 100, den |-> total]
    ELSE [num |-> 0, den |-> 1]

\* get_statistics at clock t: raised when get_overdue_tasks raises, else the
\* dictionary returned.
GetStatistics(ts, t) ==
    LET total == Len(ts)
        completed == Len(GetTasksByStatus(ts, "COMPLETED"))
        overdue == GetOverdueTasks(ts, t)
    IN  [ raised |-> overdue.raised,
          total |-> total,
          completed |-> completed,
          pending |-> Len(GetTasksByStatus(ts, "PENDING")),
          in_progress |-> Len(GetTasksByStatus(ts, "IN_PROGRESS")),
          overdue |-> Len(overdue.value),
          completion_rate |-> CompletionRate(completed, total),
          priority_stats |->
              [priority \in Priority |-> Len(GetTasksByPriority(ts, priority))] ]

Init ==
    /\ tasks = <<>>
    /\ next_id = 1
    /\ file = NoFile
    /\ now = 0
    /\ last = [op |-> "init", ok |-> TRUE, id |-> 0, status |-> "", widget |-> 0]
    /\ shown = <<>>
    /\ orphans = <<>>
    /\ issued = <<>>
    /\ assigned = <<>>
    /\ lost = FALSE
    /\ steps = 0

\* An add_task that numbers the new task by the length of the list.
AddIdByLength(ts, nid) == Len(ts) + 1

\* The id add_task gives the new task.
AddId(ts, nid) == nid

\* An add_task that takes the task back when the save fails.
AddKeepsRollback(ts, task, saved) == IF saved THEN Append(ts, task) ELSE ts

\* The tasks add_task leaves in memory; saved: what save_tasks returned.
AddKeeps(ts, task, saved) == Append(ts, task)

\* TaskWidget.__init__ returns for this task: it ends with update_style, which
\* calls is_overdue unless the task is COMPLETED.
WidgetBuilt(task, t) == IsOverdue(task, t) # "TypeError"

\* MainWindow.load_tasks: the old widgets are dropped and a widget is made for
\* each task in turn, up to the first whose TaskWidget.__init__ raises.
RebuiltWidgets(ts, t) ==
    [k \in 1..Len(ts) |-> \A j \in 1..k : WidgetBuilt(ts[j], t)]

\* TaskWidget.update_status on the widget's task at clock t.
SetStatus(task, new_status, t) ==
    [task EXCEPT !.status = new_status,
                 !.completed_at = IF new_status = "COMPLETED" THEN DateTime(t)
                                  ELSE None]

\* The arguments MainWindow.add_task passes to add_task: the due date is the
\* datetime.date of the form's QDateEdit.
FromWindow(a) == a.due_date.kind = "date"

\* add_task; called by MainWindow.add_task, a TaskWidget is made for the task it
\* returns.
AddTask ==
    /\ steps < MaxSteps
    /\ \E a \in AddArgs, outcome \in SaveOutcome :
        LET id == AddId(tasks, next_id)
            task == NewTask(id, a.title, a.description, a.priority,
                            a.due_date, a.category, DateTime(now))
        IN  /\ next_id' = next_id + 1
            /\ file' = SaveTasks(Append(tasks, task), next_id', file, outcome)
            /\ tasks' = AddKeeps(tasks, task, SaveReturns(outcome))
            /\ last' = [op |-> "add", ok |-> SaveReturns(outcome), id |-> id,
                        status |-> "", widget |-> 0]
            /\ shown' = Append(shown, /\ FromWindow(a)
                                      /\ SaveReturns(outcome)
                                      /\ WidgetBuilt(task, now))
            /\ issued' = Append(issued, id)
            /\ assigned' = Append(assigned, id)
    /\ steps' = steps + 1
    /\ UNCHANGED <<now, orphans, lost>>

\* update_task(task_id, key=value), one keyword a call: a call with several is
\* the same assignments in turn, followed by one save.
UpdateTask ==
    /\ steps < MaxSteps
    /\ \E task_id \in TaskIds, key \in UpdateKeys, outcome \in SaveOutcome :
        \E value \in UpdateValues(key) :
            LET i == GetTask(tasks, task_id)
            IN  IF i # 0
                THEN /\ tasks' = [tasks EXCEPT ![i] = SetAttr(tasks[i], key, value)]
                     /\ file' = SaveTasks(tasks', next_id, file, outcome)
                     /\ last' = [op |-> "update", ok |-> SaveReturns(outcome),
                                 id |-> task_id, status |-> "", widget |-> 0]
                ELSE /\ tasks' = tasks
                     /\ file' = file
                     /\ last' = [op |-> "update", ok |-> FALSE, id |-> task_id,
                                 status |-> "", widget |-> 0]
    /\ steps' = steps + 1
    /\ UNCHANGED <<next_id, now, shown, orphans, issued, assigned, lost>>

\* The taskDeleted signal of a TaskWidget carries this id.
WidgetOf(ts, ws, os, task_id) ==
    \/ \E k \in 1..Len(ts) : ws[k] /\ ts[k].id = task_id
    \/ \E k \in 1..Len(os) : os[k].id = task_id

\* delete_task; called by MainWindow.delete_task on the taskDeleted signal of a
\* widget, the widgets are made anew when it returns True.
DeleteTask ==
    /\ steps < MaxSteps
    /\ \E task_id \in TaskIds, outcome \in SaveOutcome :
        LET i == GetTask(tasks, task_id)
        IN  IF i # 0
            THEN /\ tasks' = Remove(tasks, i)
                 /\ file' = SaveTasks(tasks', next_id, file, outcome)
                 /\ last' = [op |-> "delete", ok |-> SaveReturns(outcome),
                             id |-> task_id, status |-> "", widget |-> 0]
                 /\ IF /\ SaveReturns(outcome)
                       /\ WidgetOf(tasks, shown, orphans, task_id)
                    THEN /\ shown' = RebuiltWidgets(tasks', now)
                         /\ orphans' = <<>>
                    ELSE /\ shown' = Remove(shown, i)
                         /\ orphans' = IF shown[i] THEN Append(orphans, tasks[i])
                                       ELSE orphans
            ELSE /\ tasks' = tasks
                 /\ file' = file
                 /\ last' = [op |-> "delete", ok |-> FALSE, id |-> task_id,
                             status |-> "", widget |-> 0]
                 /\ UNCHANGED <<shown, orphans>>
    /\ steps' = steps + 1
    /\ UNCHANGED <<next_id, now, issued, assigned, lost>>

\* A call of save_tasks alone, as MainWindow.on_task_updated makes.
Save ==
    /\ steps < MaxSteps
    /\ \E outcome \in SaveOutcome :
        /\ file' = SaveTasks(tasks, next_id, file, outcome)
        /\ last' = [op |-> "save", ok |-> SaveReturns(outcome), id |-> 0,
                    status |-> "", widget |-> 0]
    /\ steps' = steps + 1
    /\ UNCHANGED <<tasks, next_id, now, shown, orphans, issued, assigned, lost>>

\* The file holds the state <<ts, nid>> of the store: the last save_tasks wrote it
\* in full, or nothing was ever added and there is no file.
UpToDate(f, ts, nid) ==
    \/ f = JsonFile(ts, nid)
    \/ f = NoFile /\ ts = <<>> /\ nid = 1

\* MainWindow.__init__: TodoList.__init__, a new store on the same file, and the
\* widgets of its tasks.
NewTodoList ==
    /\ steps < MaxSteps
    /\ LET loaded == LoadTasks(<<>>, 1, file)
       IN  /\ tasks' = loaded[1]
           /\ next_id' = loaded[2]
    /\ shown' = RebuiltWidgets(tasks', now)
    /\ orphans' = <<>>
    /\ last' = [op |-> "load", ok |-> TRUE, id |-> 0, status |-> "", widget |-> 0]
    /\ issued' = <<>>
    /\ lost' = (lost \/ ~UpToDate(file, tasks, next_id))
    /\ steps' = steps + 1
    /\ UNCHANGED <<file, now, assigned>>

\* TaskWidget.update_status(new_status) on one of the window's widgets, and
\* MainWindow.on_task_updated, which the taskUpdated signal calls: save_tasks.
UpdateStatus ==
    /\ steps < MaxSteps
    /\ \E new_status \in Status, outcome \in SaveOutcome :
        \/ \E k \in 1..Len(tasks) :
            /\ shown[k]
            /\ tasks' = [tasks EXCEPT ![k] = SetStatus(tasks[k], new_status, now)]
            /\ orphans' = orphans
            /\ file' = SaveTasks(tasks', next_id, file, outcome)
            /\ last' = [op |-> "status", ok |-> SaveReturns(outcome),
                        id |-> tasks[k].id, status |-> new_status, widget |-> k]
        \/ \E k \in 1..Len(orphans) :
            /\ orphans' = [orphans EXCEPT
                              ![k] = SetStatus(orphans[k], new_status, now)]
            /\ tasks' = tasks
            /\ file' = SaveTasks(tasks, next_id, file, outcome)
            /\ last' = [op |-> "status", ok |-> SaveReturns(outcome),
                        id |-> orphans[k].id, status |-> new_status,
                        widget |-> 0 - k]
    /\ steps' = steps + 1
    /\ UNCHANGED <<next_id, now, shown, issued, assigned, lost>>

\* Time passes.
Tick ==
    /\ steps < MaxSteps
    /\ now' = now + 1
    /\ steps' = steps + 1
    /\ UNCHANGED <<tasks, next_id, file, last, shown, orphans, issued, assigned,
                   lost>>

\* The file is replaced from outside the program by a damaged one.
CorruptKinds ==
    { "garbage", "no_tasks", "no_next_id", "priority", "status", "due_date",
      "created_at", "id" }

Corrupt(f, kind, i) ==
    CASE kind = "garbage" -> GarbageFile
      [] kind = "no_tasks" -> [f EXCEPT !.has_tasks = FALSE, !.tasks = <<>>]
      [] kind = "no_next_id" -> [f EXCEPT !.has_next_id = FALSE, !.next_id = 0]
      [] kind = "priority" -> [f EXCEPT !.tasks[i].priority = 9]
      [] kind = "status" -> [f EXCEPT !.tasks[i].status = "Done"]
      [] kind = "due_date" -> [f EXCEPT !.tasks[i].due_date = [text |-> "bad", t |-> 0]]
      [] kind = "created_at" -> [f EXCEPT !.tasks[i].created_at = [text |-> "bad", t |-> 0]]
      [] kind = "id" -> [f EXCEPT !.tasks[i].id = 0]

CorruptFile ==
    /\ steps < MaxSteps
    /\ file.state = "json"
    /\ \E kind \in CorruptKinds :
        \/ /\ kind \in {"garbage", "no_tasks", "no_next_id"}
           /\ file' = Corrupt(file, kind, 0)
        \/ /\ kind \notin {"garbage", "no_tasks", "no_next_id"}
           /\ \E i \in 1..Len(file.tasks) : file' = Corrupt(file, kind, i)
    /\ last' = [op |-> "corrupt", ok |-> TRUE, id |-> 0, status |-> "", widget |-> 0]
    /\ steps' = steps + 1
    /\ UNCHANGED <<tasks, next_id, now, shown, orphans, issued, assigned, lost>>

Next ==
    \/ AddTask
    \/ UpdateTask
    \/ DeleteTask
    \/ Save
    \/ UpdateStatus
    \/ NewTodoList
    \/ Tick

Spec == Init /\ [][Next]_vars

\* The window opened on the file an earlier run left: that run's
\* MainWindow.add_task saved one task, and load_tasks has read it back.
InitWindow ==
    LET a == CHOOSE a \in AddArgs : FromWindow(a)
        saved == JsonFile(<<NewTask(1, a.title, a.description, a.priority,
                                    a.due_date, a.category, DateTime(0))>>, 2)
        loaded == LoadTasks(<<>>, 1, saved)
    IN  /\ tasks = loaded[1]
        /\ next_id = loaded[2]
        /\ file = saved
        /\ now = 0
        /\ last = [op |-> "load", ok |-> TRUE, id |-> 0, status |-> "", widget |-> 0]
        /\ shown = RebuiltWidgets(tasks, now)
        /\ orphans = <<>>
        /\ issued = <<>>
        /\ assigned = <<1>>
        /\ lost = FALSE
        /\ steps = 0

SpecWindow == InitWindow /\ [][Next]_vars

\* The store with a file that may be damaged between two runs of the program.
NextCorrupt ==
    \/ Next
    \/ CorruptFile

SpecCorrupt == Init /\ [][NextCorrupt]_vars

-----------------------------------------------------------------------------
\* Steps, as the properties below name them: the call `op` of the store was made.

Called(op) == last'.op = op /\ steps' = steps + 1 /\ now' = now

\* C1: after any sequence of add_task and update_task calls, every task of the
\* store has completed_at set if and only if its status is COMPLETED.
C1_CompletedAtIffCompleted ==
    \A i \in 1..Len(tasks) :
        (tasks[i].completed_at # None) <=> (tasks[i].status = "COMPLETED")

\* C2: the ids add_task gives out in one store are strictly increasing in call
\* order, whatever deletes come between and whether or not the saves succeed; so
\* they are pairwise distinct and an id freed by a delete is not given again.
C2_IdsStrictlyIncreasing ==
    \A i, j \in 1..Len(issued) : i < j => issued[i] < issued[j]

\* C2 witness: a task was added, deleted, and another task added.
C2_Witness ==
    /\ last.op = "add"
    /\ issued = <<1, 2>>
    /\ Len(tasks) = 1
    /\ tasks[1].id = 2

\* C3: a successful save of the store followed by a load gives the same tasks,
\* field for field and in the same order, and the same next_id.
C3_RoundTrip ==
    LoadTasks(<<>>, 1, SaveTasks(tasks, next_id, file, "ok")) = <<tasks, next_id>>

\* C4: when add_task, update_task or delete_task has returned success, the file
\* holds the tasks and the next_id the store holds in memory.
C4_SaveOnWrite ==
    (last.op \in {"add", "update", "delete"} /\ last.ok)
        => file = JsonFile(tasks, next_id)

\* C4 witness: an update returned success on a store of two tasks.
C4_Witness ==
    /\ last.op = "update"
    /\ last.ok
    /\ Len(tasks) = 2
    /\ tasks[2].title = "b"
    /\ file.state = "json"

\* C5: a save_tasks that fails leaves tasks and next_id as they were and leaves
\* the file either as it was or holding the complete new state.
C5_SaveAllOrNothing ==
    [][ (Called("save") /\ ~last'.ok)
            => /\ tasks' = tasks
               /\ next_id' = next_id
               /\ file' \in {file, JsonFile(tasks, next_id)} ]_vars

\* C6: add_task returns the task exactly when the save succeeded; in both cases
\* the new task is the last of the tasks in memory and next_id is one more than
\* before, and when the save failed the file does not hold the state in memory.
C6_AddKeepsTaskOnFailure ==
    [][ Called("add")
            => /\ last'.ok <=> (file' = JsonFile(tasks', next_id'))
               /\ next_id' = next_id + 1
               /\ Len(tasks') = Len(tasks) + 1
               /\ SubSeq(tasks', 1, Len(tasks)) = tasks
               /\ tasks'[Len(tasks')].id = last'.id ]_vars

\* C6 witness: an add on a saved store of one task failed to save; the store
\* holds two tasks and the file one.
C6_Witness ==
    /\ last.op = "add"
    /\ ~last.ok
    /\ Len(tasks) = 2
    /\ tasks[2].id = last.id
    /\ next_id = 3
    /\ file.state = "json"
    /\ Len(file.tasks) = 1

\* A record of the file with a priority that is no Priority value, a status that
\* is no Status value, or a date that is neither null nor ISO text.
RejectedRecord(data) ==
    \/ data.priority \notin 1..4
    \/ data.status \notin {"Pending", "In Progress", "Completed", "Cancelled"}
    \/ data.due_date.text \notin {"null", "date", "datetime"}
    \/ data.created_at.text \notin {"date", "datetime"}
    \/ data.completed_at.text \notin {"null", "date", "datetime"}

\* A record of the file with a value its field cannot have: as above, or an id
\* that is not a positive integer.
InvalidRecord(data) == RejectedRecord(data) \/ data.id < 1

\* A file that is not JSON or lacks the key 'tasks' or 'next_id'.
BrokenFile(f) ==
    \/ f.state \in {"garbage", "partial"}
    \/ f.state = "json" /\ (~f.has_tasks \/ ~f.has_next_id)

\* C7 (as amended): when the file is not JSON, lacks 'tasks' or 'next_id', or
\* holds a record with an invalid priority, status or date, load_tasks leaves the
\* store with no task and next_id = 1.
C7_LoadFailsSoft ==
    [][ ( /\ Called("load")
          /\ \/ BrokenFile(file)
             \/ \E i \in 1..Len(file.tasks) : RejectedRecord(file.tasks[i]) )
            => (tasks' = <<>> /\ next_id' = 1) ]_vars

\* C7 witness: a file with a valid task record and no 'next_id' key was loaded,
\* and the store is empty.
C7_Witness ==
    /\ last.op = "load"
    /\ file.state = "json"
    /\ file.has_tasks
    /\ ~file.has_next_id
    /\ Len(file.tasks) = 1
    /\ tasks = <<>>
    /\ next_id = 1

\* C7 (as claimed): the same for a file that holds a record with any invalid
\* field value.
C7_LoadResetsOnAnyInvalidValue ==
    [][ ( /\ Called("load")
          /\ \/ BrokenFile(file)
             \/ \E i \in 1..Len(file.tasks) : InvalidRecord(file.tasks[i]) )
            => (tasks' = <<>> /\ next_id' = 1) ]_vars

\* C8: update_task and delete_task with an id no task has return False and leave
\* tasks, next_id and the file as they were.
C8_UnknownIdChangesNothing ==
    [][ ( /\ Called("update") \/ Called("delete")
          /\ \A i \in 1..Len(tasks) : tasks[i].id # last'.id )
            => /\ ~last'.ok
               /\ tasks' = tasks
               /\ next_id' = next_id
               /\ file' = file ]_vars

\* C8 witness: a delete with an unknown id was refused on a store that holds a
\* task and whose file is not up to date.
C8_Witness ==
    /\ last.op = "delete"
    /\ ~last.ok
    /\ Len(tasks) = 1
    /\ tasks[1].id # last.id
    /\ file # JsonFile(tasks, next_id)

\* C9: update_task leaves the id and the created_at of every task as they were,
\* whatever key and value it is given.
C9_IdAndCreatedAtImmutable ==
    [][ Called("update")
            => /\ Len(tasks') = Len(tasks)
               /\ \A i \in 1..Len(tasks) :
                    /\ tasks'[i].id = tasks[i].id
                    /\ tasks'[i].created_at = tasks[i].created_at ]_vars

\* C10: an update_task that changes a task's status into COMPLETED sets its
\* completed_at to the time of the call, one that changes it away from COMPLETED
\* sets completed_at to None, and any other change of status leaves completed_at
\* as it was.
C10_StatusTransitions ==
    [][ Called("update")
            => /\ Len(tasks') = Len(tasks)
               /\ \A i \in 1..Len(tasks) :
                    tasks'[i].status # tasks[i].status
                        => tasks'[i].completed_at =
                              IF tasks'[i].status = "COMPLETED" THEN DateTime(now)
                              ELSE IF tasks[i].status = "COMPLETED" THEN None
                              ELSE tasks[i].completed_at ]_vars

\* The claims' reading of "overdue": the due date is present, it is earlier than
\* the current time t, and the status is not COMPLETED.
OverdueAt(task, t) ==
    /\ task.due_date.kind # "none"
    /\ task.due_date.t < t
    /\ task.status # "COMPLETED"

\* C11: is_overdue returns true if and only if the due date is present and
\* earlier than the current time and the status is not COMPLETED, and false
\* otherwise.
C11_IsOverdueIff ==
    \A i \in 1..Len(tasks) :
        IsOverdue(tasks[i], now) = IF OverdueAt(tasks[i], now) THEN "True" ELSE "False"

\* The positions of ts whose task satisfies P, and r as the tasks at these
\* positions, each once, in the order of ts.
Matching(ts, P(_)) == {i \in 1..Len(ts) : P(ts[i])}

IsSubsequenceWhere(r, ts, P(_)) ==
    /\ Len(r) = Cardinality(Matching(ts, P))
    /\ \A k \in 1..Len(r) :
        \E i \in Matching(ts, P) :
            /\ Cardinality({j \in Matching(ts, P) : j <= i}) = k
            /\ r[k] = ts[i]

\* C12: each query returns exactly the tasks of the store that satisfy its
\* predicate, each once, in the order of the store; overdueTasks returns the
\* overdue ones.
C12_QueriesReturnMatching ==
    /\ \A status \in Status :
        IsSubsequenceWhere(GetTasksByStatus(tasks, status), tasks,
                           LAMBDA task : task.status = status)
    /\ \A priority \in Priority :
        IsSubsequenceWhere(GetTasksByPriority(tasks, priority), tasks,
                           LAMBDA task : task.priority = priority)
    /\ \A category \in {"General", "Shopping", "Work"} :
        IsSubsequenceWhere(GetTasksByCategory(tasks, category), tasks,
                           LAMBDA task : task.category = category)
    /\ ~GetOverdueTasks(tasks, now).raised
    /\ IsSubsequenceWhere(GetOverdueTasks(tasks, now).value, tasks,
                          LAMBDA task : OverdueAt(task, now))

\* The number of tasks of the store with status COMPLETED.
CompletedCount == Cardinality({i \in 1..Len(tasks) : tasks[i].status = "COMPLETED"})

\* C13: get_statistics reports total = the number of tasks, completed = the number
\* of COMPLETED tasks and completion_rate = completed / total * 100, which is 0 for
\* the empty store and 100 when every task of a non-empty store is COMPLETED.
C13_CompletionRate ==
    LET stats == GetStatistics(tasks, now)
        rate == stats.completion_rate
    IN  /\ ~stats.raised
        /\ stats.total = Len(tasks)
        /\ stats.completed = CompletedCount
        /\ rate.num * Len(tasks) = CompletedCount * 100 * rate.den
        /\ Len(tasks) = 0 => rate.num = 0
        /\ (Len(tasks) > 0 /\ CompletedCount = Len(tasks)) => rate.num = 100 * rate.den

\* C14: the priority_stats get_statistics returns has an entry for each of the
\* four priorities and its counts sum to the number of tasks.
C14_PriorityCountsSumToTotal ==
    LET stats == GetStatistics(tasks, now)
        counts == stats.priority_stats
    IN  /\ ~stats.raised
        /\ DOMAIN counts = {"LOW", "MEDIUM", "HIGH", "URGENT"}
        /\ counts["LOW"] + counts["MEDIUM"] + counts["HIGH"] + counts["URGENT"]
              = stats.total
        /\ stats.total = Len(tasks)

\* C15: in every state of the store no operation raises: is_overdue,
\* get_overdue_tasks and get_statistics return (load_tasks, save_tasks, add_task,
\* update_task, delete_task and get_task return in every state of the model).
C15_NoOperationRaises ==
    /\ \A i \in 1..Len(tasks) : IsOverdue(tasks[i], now) \in {"True", "False"}
    /\ GetOverdueTasks(tasks, now).raised = FALSE
    /\ GetStatistics(tasks, now).raised = FALSE

\* C16 (as claimed): over any sequence of add, delete, save and construction of a
\* new store from the file, an id add_task has given is not given again: the ids
\* given in all instances are strictly increasing.
C16_IdsNeverReassigned ==
    \A i, j \in 1..Len(assigned) : i < j => assigned[i] # assigned[j]

\* C16 (as amended): the same as long as every new store was constructed from a
\* file that held the state of the store before it.
C16_IdsNeverReassignedWhileSaved ==
    ~lost => \A i, j \in 1..Len(assigned) : i < j => assigned[i] < assigned[j]

\* C16 witness: a task was added and saved, a new store constructed from the file,
\* and a task added in it.
C16_Witness ==
    /\ ~lost
    /\ last.op = "add"
    /\ assigned = <<1, 2>>
    /\ issued = <<2>>
    /\ Len(tasks) = 2


\* The task held by widget k: tasks[k] for k > 0, orphans[-k] for k < 0.
WidgetTask(ts, os, k) == IF k > 0 THEN ts[k] ELSE os[0 - k]

\* What update_status(last'.status) on widget last'.widget did to the widget's
\* task and to the store.
StatusUpdated ==
    LET k == last'.widget
        before == WidgetTask(tasks, orphans, k)
        after == WidgetTask(tasks', orphans', k)
    IN  /\ after.status = last'.status
        /\ (after.completed_at # None) <=> (after.status = "COMPLETED")
        /\ last'.ok =>
               /\ file'.state = "json"
               /\ \E j \in 1..Len(file'.tasks) : file'.tasks[j] = ToDict(after)
        /\ [after EXCEPT !.status = before.status,
                         !.completed_at = before.completed_at] = before
        /\ next_id' = next_id
        /\ Len(tasks') = Len(tasks)
        /\ \A j \in 1..Len(tasks) : j # k => tasks'[j] = tasks[j]

\* C17, as claimed: after update_status(new_status) on any TaskWidget the
\* widget's task has status new_status and a completed_at that is set exactly
\* when the status is Completed, the task as the file holds it after a
\* successful save has the new status, and the task's other fields, the other
\* tasks and next_id are unchanged.
C17_UpdateStatusPersists == [][Called("status") => StatusUpdated]_vars

\* update_status on a widget whose task is in the store's list does all of this.
UpdateStatusPersistsInStore ==
    [][Called("status") /\ last'.widget > 0 => StatusUpdated]_vars

\* update_status("COMPLETED") has run on the widget of the first of two tasks
\* and its save has succeeded.
UpdateStatusPersisted ==
    /\ last.op = "status" /\ last.ok /\ last.widget = 1
    /\ last.status = "COMPLETED"
    /\ Len(tasks) = 2
    /\ tasks[1].status = "COMPLETED"
    /\ tasks[1].completed_at = DateTime(now)
    /\ tasks[2].status = "PENDING"
    /\ file = JsonFile(tasks, next_id)

====
